---- MODULE Spec2Model ----
(***************************************************************************)
(* A model of tiny_fail (src/src/lib.rs): the failure value Fail with its  *)
(* message/cause chain, its Display rendering, the FailExt::context        *)
(* implementations for Result<T, E>, Option<T> and Result<T, Fail>, the    *)
(* conversion From<E> for Fail, and the wrapper Error.                     *)
(*                                                                         *)
(* Values are records.  Option<X> is [tag |-> "None"] / [tag |-> "Some"],  *)
(* Result<T, X> is [tag |-> "Ok"] / [tag |-> "Err"], each with a val       *)
(* field.  Text is a TLA+ string and \o is string concatenation.           *)
(***************************************************************************)
EXTENDS Naturals, Sequences, FiniteSets

VARIABLES res, trail, wrapper, wtrail, last

vars == <<res, trail, wrapper, wtrail, last>>

(***************************************************************************)
(* Bounds of the model.                                                    *)
(***************************************************************************)
\* The largest number of Fail values (links, counted through wrappers held
\* as causes) alive at once in res and wrapper together.
MaxLinks == 3

\* The messages handed to Fail::new and context.  One of them is empty and
\* one contains the separator text, so that rendering cannot tell a message
\* from a separator by its text alone.
Msgs == {"a", "b: ", ""}

\* The texts of the foreign errors (values of some E: std::error::Error
\* that is not this crate's Error).
ForeignTexts == {"file not found", "eof"}

\* The success values T.
Vals == {"v1", "v2"}

(***************************************************************************)
(* Option and Result.                                                      *)
(***************************************************************************)
None == [tag |-> "None", val |-> ""]

Some(v) == [tag |-> "Some", val |-> v]

Ok(v) == [tag |-> "Ok", val |-> v]

Err(e) == [tag |-> "Err", val |-> e]

\* The value in flight has been moved out (into a wrapper or a cause).
Moved == [tag |-> "Moved", val |-> ""]

(***************************************************************************)
(* struct Fail, enum FailCause, struct Error and the foreign errors.       *)
(***************************************************************************)
\* struct Fail { msg: Option<String>, cause: Option<FailCause> }
Fail(msg, cause) == [msg |-> msg, cause |-> cause]

\* FailCause::Error(Box<dyn Error>)
CauseError(e) == [tag |-> "Error", val |-> e]

\* FailCause::Fail(Box<Fail>)
CauseFail(f) == [tag |-> "Fail", val |-> f]

\* A foreign error: opaque but for its Display text.
Foreign(t) == [tag |-> "Foreign", val |-> t]

\* struct Error(Fail): the tuple constructor, visible in the crate only.
Error(f) == [tag |-> "Wrapper", val |-> f]

\* msg.to_string() for S = &str or String, the types the messages are
\* drawn from: the same text.
to_string(s) == s

(***************************************************************************)
(* impl Fail                                                               *)
(***************************************************************************)
Fail_new(msg) == Fail(Some(to_string(msg)), None)

add_msg_Overwrite(self, msg) == Fail(Some(to_string(msg)), self.cause)

add_msg_AlwaysWrap(self, msg) ==
    Fail(Some(to_string(msg)), Some(CauseFail(self)))

add_msg_NoMsg(self, msg) ==
    IF self.msg.tag = "None"
    THEN Fail(None, self.cause)
    ELSE Fail(Some(to_string(msg)), Some(CauseFail(self)))

add_msg(self, msg) ==
    IF self.msg.tag = "None"
    THEN Fail(Some(to_string(msg)), self.cause)
    ELSE Fail(Some(to_string(msg)), Some(CauseFail(self)))

(***************************************************************************)
(* impl From<E> for Fail                                                   *)
(***************************************************************************)
From_DropCause(err) == Fail(None, None)

From(err) == Fail(None, Some(CauseError(err)))

(***************************************************************************)
(* impl Display for Fail, impl Display for Error.  The formatter is the    *)
(* sequence of the writes made to it, each with the source line that makes *)
(* it; the rendered text is their concatenation.                           *)
(***************************************************************************)
Write(line, s) == [at |-> line, s |-> s]

Sep == ": "

RECURSIVE Fail_fmt(_)
RECURSIVE Error_fmt(_)

\* e.fmt(f) on the boxed dyn Error: a foreign error writes its own text,
\* this crate's Error runs its own Display.
dyn_fmt(e) ==
    IF e.tag = "Foreign" THEN <<Write(88, e.val)>> ELSE Error_fmt(e)

Fail_fmt_SepAlways(self) ==
    LET has_msg == self.msg.tag = "Some"
    IN  (IF has_msg THEN <<Write(76, self.msg.val)>> ELSE <<>>)
        \o (IF self.cause.tag = "Some"
            THEN <<Write(84, Sep)>>
                 \o (IF self.cause.val.tag = "Error"
                     THEN dyn_fmt(self.cause.val.val)
                     ELSE Fail_fmt(self.cause.val.val))
            ELSE <<>>)

Fail_fmt_CauseFirst(self) ==
    LET has_msg == self.msg.tag = "Some"
    IN  (IF self.cause.tag = "Some"
         THEN (IF self.cause.val.tag = "Error"
               THEN dyn_fmt(self.cause.val.val)
               ELSE Fail_fmt(self.cause.val.val))
              \o (IF has_msg THEN <<Write(84, Sep)>> ELSE <<>>)
         ELSE <<>>)
        \o (IF has_msg THEN <<Write(76, self.msg.val)>> ELSE <<>>)

Fail_fmt(self) ==
    LET has_msg == self.msg.tag = "Some"
    IN  (IF has_msg THEN <<Write(76, self.msg.val)>> ELSE <<>>)
        \o (IF self.cause.tag = "Some"
            THEN (IF has_msg THEN <<Write(84, Sep)>> ELSE <<>>)
                 \o (IF self.cause.val.tag = "Error"
                     THEN dyn_fmt(self.cause.val.val)
                     ELSE Fail_fmt(self.cause.val.val))
            ELSE <<>>)

Error_fmt_Debug(self) == <<Write(122, "Error(")>> \o Fail_fmt(self.val)
                         \o <<Write(122, ")")>>

Error_fmt(self) == Fail_fmt(self.val)

\* The text a formatter holds after the writes ws.
RECURSIVE Text(_)
Text(ws) == IF ws = <<>> THEN "" ELSE Head(ws).s \o Text(Tail(ws))

\* to_string() of a Fail, of an Error, of any boxed error.
Render(f) == Text(Fail_fmt(f))

RenderError(e) == Text(Error_fmt(e))

RenderDyn(e) == Text(dyn_fmt(e))

(***************************************************************************)
(* impl FailExt<T>: context.  Each returns the result and the number of    *)
(* Fail values it constructed (the closure of map_err / ok_or_else runs    *)
(* only on Err / None).                                                    *)
(***************************************************************************)
Call(r, made) == [r |-> r, made |-> made]

context_ResultE_NoCause(self, msg) ==
    IF self.tag = "Err"
    THEN Call(Err(Fail(Some(to_string(msg)), None)), 1)
    ELSE Call(self, 0)

context_ResultE(self, msg) ==
    IF self.tag = "Err"
    THEN Call(Err(Fail(Some(to_string(msg)), Some(CauseError(self.val)))), 1)
    ELSE Call(self, 0)

context_Option_Eager(self, msg) == Call(Err(Fail_new(msg)), 1)

context_Option(self, msg) ==
    IF self.tag = "None"
    THEN Call(Err(Fail_new(msg)), 1)
    ELSE Call(Ok(self.val), 0)

context_ResultFail(self, msg) ==
    IF self.tag = "Err"
    THEN Call(Err(add_msg(self.val, msg)), 1)
    ELSE Call(self, 0)

(***************************************************************************)
(* impl Error                                                              *)
(***************************************************************************)
as_fail(self) == self.val

into_fail(self) == self.val

(***************************************************************************)
(* Measures of a Fail value.                                               *)
(***************************************************************************)
\* The chain depth: the number of causes from the outermost link down.
RECURSIVE Depth(_)
Depth(f) ==
    IF f.cause.tag = "None" THEN 0
    ELSE IF f.cause.val.tag = "Error" THEN 1
    ELSE 1 + Depth(f.cause.val.val)

\* The links of the chain of f, outermost first: f and every Fail held as
\* a FailCause::Fail below it.
RECURSIVE Chain(_)
Chain(f) ==
    IF f.cause.tag = "Some" /\ f.cause.val.tag = "Fail"
    THEN <<f>> \o Chain(f.cause.val.val)
    ELSE <<f>>

\* The innermost link of the chain of f.
Innermost(f) == Chain(f)[Len(Chain(f))]

\* Every Fail value inside f: its chain, and the chains of the Fail values
\* wrapped by an Error held as a FailCause::Error.
RECURSIVE AllFails(_)
AllFails(f) ==
    LET c  == Chain(f)
        in == Innermost(f)
    IN  {c[i] : i \in 1..Len(c)}
        \cup (IF in.cause.tag = "Some" /\ in.cause.val.tag = "Error"
                 /\ in.cause.val.val.tag = "Wrapper"
              THEN AllFails(in.cause.val.val.val)
              ELSE {})

\* The number of Fail values inside f.
RECURSIVE Links(_)
Links(f) ==
    LET in == Innermost(f)
    IN  Len(Chain(f))
        + (IF in.cause.tag = "Some" /\ in.cause.val.tag = "Error"
              /\ in.cause.val.val.tag = "Wrapper"
           THEN Links(in.cause.val.val.val)
           ELSE 0)

LinksOfRes == IF res.tag = "Err" THEN Links(res.val) ELSE 0

LinksOfWrapper == IF wrapper.tag = "Some" THEN Links(wrapper.val.val) ELSE 0

(***************************************************************************)
(* The state.                                                              *)
(*   res      the Result<T, Fail> in flight (or Moved)                     *)
(*   trail    how the failure in res was built: the text of its base and   *)
(*            the messages attached since, in call order                   *)
(*   wrapper  the Option<Error> held at the interface boundary             *)
(*   wtrail   the constructor that built wrapper, the Fail it was given    *)
(*            and that value's trail                                       *)
(*   last     the last operation: its name, inputs, result and the number  *)
(*            of Fail values it constructed                                *)
(***************************************************************************)
NoTrail == [kind |-> "none", root |-> "", ctx |-> <<>>]

NoWTrail == [by |-> "none", of |-> Moved, trail |-> NoTrail]

Op(op, inp, msg, out, made) ==
    [op |-> op, inp |-> inp, msg |-> msg, out |-> out, made |-> made]

\* The errors a call site can hold: foreign ones, and the wrapper.
ErrInputs ==
    {Foreign(t) : t \in ForeignTexts}
    \cup (IF wrapper.tag = "Some" THEN {wrapper.val} ELSE {})

\* Passing the wrapper by value moves it.
WrapperAfter(e) == IF e.tag = "Wrapper" THEN None ELSE wrapper

WTrailAfter(e) == IF e.tag = "Wrapper" THEN NoWTrail ELSE wtrail

Init ==
    /\ res \in {Ok(v) : v \in Vals}
    /\ trail = NoTrail
    /\ wrapper = None
    /\ wtrail = NoWTrail
    /\ last = Op("none", Moved, "", Moved, 0)

\* return Err(Fail::new(msg))
FailNew ==
    \E m \in Msgs :
        /\ 1 + LinksOfWrapper <= MaxLinks
        /\ res' = Err(Fail_new(m))
        /\ trail' = [kind |-> "message", root |-> to_string(m), ctx |-> <<>>]
        /\ last' = Op("Fail::new", Moved, m, Fail_new(m), 1)
        /\ UNCHANGED <<wrapper, wtrail>>

\* Err(e)? in a function returning Result<T, Fail>: the conversion From.
FromErr ==
    \E e \in ErrInputs :
        /\ 1 + LinksOfWrapper <= MaxLinks
        /\ res' = Err(From(e))
        /\ trail' = [kind |-> "conversion", root |-> RenderDyn(e),
                     ctx |-> <<>>]
        /\ wrapper' = WrapperAfter(e)
        /\ wtrail' = WTrailAfter(e)
        /\ last' = Op("From", e, "", From(e), 1)

\* r.context(msg) for r: Result<T, E>
ContextResultE ==
    \E self \in {Ok(v) : v \in Vals} \cup {Err(e) : e \in ErrInputs},
       m \in Msgs :
        LET c == context_ResultE(self, m)
            e == IF self.tag = "Err" THEN self.val ELSE Foreign("")
        IN  /\ self.tag = "Err" => 1 + LinksOfWrapper <= MaxLinks
            /\ res' = c.r
            /\ trail' = IF self.tag = "Err"
                        THEN [kind |-> "conversion", root |-> RenderDyn(e),
                              ctx |-> <<m>>]
                        ELSE NoTrail
            /\ wrapper' = WrapperAfter(e)
            /\ wtrail' = WTrailAfter(e)
            /\ last' = Op("context_ResultE", self, m, c.r, c.made)

\* o.context(msg) for o: Option<T>
ContextOption ==
    \E self \in {None} \cup {Some(v) : v \in Vals}, m \in Msgs :
        LET c == context_Option(self, m)
        IN  /\ self.tag = "None" => 1 + LinksOfWrapper <= MaxLinks
            /\ res' = c.r
            /\ trail' = IF self.tag = "None"
                        THEN [kind |-> "message", root |-> to_string(m),
                              ctx |-> <<>>]
                        ELSE NoTrail
            /\ last' = Op("context_Option", self, m, c.r, c.made)
            /\ UNCHANGED <<wrapper, wtrail>>

\* r.context(msg) for r: Result<T, Fail>, r the value in flight
ContextResultFail ==
    \E m \in Msgs :
        LET c == context_ResultFail(res, m)
        IN  /\ res.tag \in {"Ok", "Err"}
            /\ res.tag = "Err" =>
                   LinksOfRes + 1 + LinksOfWrapper <= MaxLinks
            /\ res' = c.r
            /\ trail' = IF res.tag = "Err"
                        THEN [trail EXCEPT !.ctx = Append(@, m)]
                        ELSE NoTrail
            /\ last' = Op("context_ResultFail", res, m, c.r, c.made)
            /\ UNCHANGED <<wrapper, wtrail>>

\* The expressions of the crate that build an Error, each with its
\* visibility: the tuple constructor of `pub struct Error(Fail)`, whose field
\* is private.  No function and no From impl returns an Error.
ErrorCtors == {[name |-> "Error(Fail)", pub |-> FALSE]}

\* Error(fail): the tuple constructor of struct Error, on the failure in
\* flight.  It is the only expression of the crate that builds an Error.
ErrorCtor ==
    /\ res.tag = "Err"
    /\ wrapper' = Some(Error(res.val))
    /\ wtrail' = [by |-> "Error(Fail)", of |-> res.val, trail |-> trail]
    /\ res' = Moved
    /\ trail' = NoTrail
    /\ last' = Op("Error(Fail)", res.val, "", Error(res.val), 0)

\* wrapper.as_fail()
AsFail ==
    /\ wrapper.tag = "Some"
    /\ last' = Op("as_fail", wrapper.val, "", as_fail(wrapper.val), 0)
    /\ UNCHANGED <<res, trail, wrapper, wtrail>>

\* Err(wrapper.into_fail())
IntoFail ==
    /\ wrapper.tag = "Some"
    /\ res' = Err(into_fail(wrapper.val))
    /\ trail' = wtrail.trail
    /\ wrapper' = None
    /\ wtrail' = NoWTrail
    /\ last' = Op("into_fail", wrapper.val, "", into_fail(wrapper.val), 0)

Next ==
    \/ FailNew
    \/ FromErr
    \/ ContextResultE
    \/ ContextOption
    \/ ContextResultFail
    \/ ErrorCtor
    \/ AsFail
    \/ IntoFail

Spec == Init /\ [][Next]_vars

(***************************************************************************)
(* What the properties read.                                               *)
(***************************************************************************)
\* The Fail values of the state, every link of every chain.
StateFails ==
    (IF res.tag = "Err" THEN AllFails(res.val) ELSE {})
    \cup (IF wrapper.tag = "Some" THEN AllFails(wrapper.val.val) ELSE {})

\* The Error held as cause by the innermost link of f, if any.
LeafWrapper(f) ==
    LET in == Innermost(f)
    IN  IF in.cause.tag = "Some" /\ in.cause.val.tag = "Error"
           /\ in.cause.val.val.tag = "Wrapper"
        THEN {in.cause.val.val}
        ELSE {}

\* The Error values of the state: the wrapper, and every Error held as a
\* cause.
StateErrors ==
    (IF wrapper.tag = "Some" THEN {wrapper.val} ELSE {})
    \cup UNION {LeafWrapper(f) : f \in StateFails}

\* The rendering of a cause.
RenderCause(c) == IF c.tag = "Error" THEN RenderDyn(c.val) ELSE Render(c.val)

IsContext(op) ==
    op \in {"context_ResultE", "context_Option", "context_ResultFail"}

(***************************************************************************)
(* C1.  context(m) on Err(F) with F.msg = Some(old) yields Err(G) with     *)
(* G.msg = Some(m) and G.cause = the nested failure F, F unchanged; G      *)
(* renders as m, ": ", the rendering of F; the depth of G is that of F     *)
(* plus one.                                                               *)
(***************************************************************************)
C1_AttachWraps ==
    (/\ last.op = "context_ResultFail"
     /\ last.inp.tag = "Err"
     /\ last.inp.val.msg.tag = "Some")
    => LET F == last.inp.val
           m == last.msg
       IN  /\ last.out.tag = "Err"
           /\ res = last.out
           /\ last.out.val.msg = Some(m)
           /\ last.out.val.cause.tag = "Some"
           /\ last.out.val.cause.val.tag = "Fail"
           /\ last.out.val.cause.val.val = F
           /\ Render(last.out.val) = m \o ": " \o Render(F)
           /\ Depth(last.out.val) = Depth(F) + 1

C1_Witness ==
    /\ last.op = "context_ResultFail"
    /\ last.inp.tag = "Err"
    /\ last.inp.val.msg.tag = "Some"
    /\ Depth(last.inp.val) >= 1
    /\ last.msg # ""

(***************************************************************************)
(* C2.  context(m) on Err(F) with F.msg = None yields Err(G) with          *)
(* G.msg = Some(m) and G.cause = F.cause: no link is added.  G renders as  *)
(* m, ": ", the rendering of F.cause when F has a cause, and as m when it  *)
(* has none; the depth of G is the depth of F.                             *)
(***************************************************************************)
C2_AttachFills ==
    (/\ last.op = "context_ResultFail"
     /\ last.inp.tag = "Err"
     /\ last.inp.val.msg.tag = "None")
    => LET F == last.inp.val
           m == last.msg
       IN  /\ last.out.tag = "Err"
           /\ res = last.out
           /\ last.out.val.msg = Some(m)
           /\ last.out.val.cause = F.cause
           /\ Render(last.out.val) =
                  IF F.cause.tag = "Some"
                  THEN m \o ": " \o RenderCause(F.cause.val)
                  ELSE m
           /\ Depth(last.out.val) = Depth(F)

C2_Witness ==
    /\ last.op = "context_ResultFail"
    /\ last.inp.tag = "Err"
    /\ last.inp.val.msg.tag = "None"
    /\ last.inp.val.cause.tag = "Some"

(***************************************************************************)
(* C3.  After n >= 1 context calls with messages m1 .. mn, in that order,  *)
(* on a failing result whose base failure has root text t (a converted     *)
(* foreign error, or a message-only Fail), the failure renders as          *)
(* "mn: ...: m2: m1: t".                                                   *)
(***************************************************************************)
RECURSIVE ChainText(_, _)
ChainText(ctx, t) ==
    IF ctx = <<>> THEN t
    ELSE ctx[Len(ctx)] \o ": " \o ChainText(SubSeq(ctx, 1, Len(ctx) - 1), t)

C3_ChainRendering ==
    (/\ res.tag = "Err"
     /\ trail.kind \in {"conversion", "message"}
     /\ Len(trail.ctx) >= 1)
    => Render(res.val) = ChainText(trail.ctx, trail.root)

C3_Witness ==
    /\ res.tag = "Err"
    /\ trail.kind = "conversion"
    /\ Len(trail.ctx) = 3
    /\ trail.ctx[1] # trail.ctx[2]
    /\ trail.ctx[2] # trail.ctx[3]

(***************************************************************************)
(* C4.  No Fail value of a reachable state has msg = None and cause =      *)
(* None: not the outermost one, and no link below it.                      *)
(***************************************************************************)
C4_NeverEmpty ==
    \A f \in StateFails : ~(f.msg.tag = "None" /\ f.cause.tag = "None")

C4_Witness ==
    /\ res.tag = "Err"
    /\ res.val.msg.tag = "None"
    /\ Links(res.val) >= 3

(***************************************************************************)
(* C5.  context(m) on a Result holding Err(e), e a foreign error, gives    *)
(* the Fail that converting e (msg = None, cause = e) and then attaching m *)
(* gives: the same message, cause, depth and rendering.                    *)
(***************************************************************************)
C5_OneStepIsTwoStep ==
    (last.op = "context_ResultE" /\ last.inp.tag = "Err")
    => LET two == add_msg(From(last.inp.val), last.msg)
       IN  /\ last.out.tag = "Err"
           /\ res = last.out
           /\ last.out.val.msg = two.msg
           /\ last.out.val.cause = two.cause
           /\ Depth(last.out.val) = Depth(two)
           /\ Render(last.out.val) = Render(two)

C5_Witness ==
    /\ last.op = "context_ResultE"
    /\ last.inp.tag = "Err"
    /\ last.inp.val.tag = "Foreign"

(***************************************************************************)
(* C6.  context(m) on a present value, Ok(v) or Some(v), of any of the     *)
(* three shapes returns Ok(v) and constructs no Fail.                      *)
(***************************************************************************)
C6_PresentPassesThrough ==
    (IsContext(last.op) /\ last.inp.tag \in {"Ok", "Some"})
    => /\ last.out = Ok(last.inp.val)
       /\ res = last.out
       /\ last.made = 0

C6_Witness ==
    /\ last.op = "context_Option"
    /\ last.inp.tag = "Some"
    /\ res.tag = "Ok"

(***************************************************************************)
(* C7.  Rendering a Fail writes its message if present, then ": " if and   *)
(* only if both a message and a cause are present, then the rendering of   *)
(* the cause if present.  So Fail::new(m) renders as m, and the conversion *)
(* of a foreign error with text t renders as t.                            *)
(***************************************************************************)
RenderRule(f) ==
    (IF f.msg.tag = "Some" THEN f.msg.val ELSE "")
    \o (IF f.msg.tag = "Some" /\ f.cause.tag = "Some" THEN ": " ELSE "")
    \o (IF f.cause.tag = "Some" THEN RenderCause(f.cause.val) ELSE "")

C7_Rendering ==
    /\ \A f \in StateFails : Render(f) = RenderRule(f)
    /\ last.op = "Fail::new" => Render(last.out) = last.msg
    /\ last.op = "From" => Render(last.out) = RenderDyn(last.inp)
    /\ (last.op = "From" /\ last.inp.tag = "Foreign")
       => Render(last.out) = last.inp.val

C7_Witness ==
    /\ last.op = "From"
    /\ last.inp.tag = "Foreign"
    /\ res.tag = "Err"
    /\ wrapper.tag = "Some"
    /\ Depth(wrapper.val.val) >= 2

(***************************************************************************)
(* C8.  For every reachable Fail F an Error holding F can be built by a    *)
(* public conversion; from then until extraction the wrapped value does    *)
(* not change: as_fail reads F and into_fail returns F.                    *)
(***************************************************************************)
C8_PublicWrapper ==
    /\ wrapper.tag = "Some"
       => /\ wtrail.by \in {c.name : c \in {d \in ErrorCtors : d.pub}}
          /\ wrapper.val.val = wtrail.of
    /\ last.op = "as_fail" => last.out = wtrail.of
    /\ last.op = "into_fail" => (res.tag = "Err" /\ res.val = last.inp.val)

\* The part of C8 that is about as_fail and into_fail, for an Error built by
\* the crate's own constructor.
C8_WrappedUnchanged ==
    /\ wrapper.tag = "Some"
       => /\ wtrail.by \in {c.name : c \in ErrorCtors}
          /\ wrapper.val.val = wtrail.of
    /\ last.op = "as_fail" => last.out = wtrail.of
    /\ last.op = "into_fail" => (res.tag = "Err" /\ res.val = last.inp.val)

(***************************************************************************)
(* C9.  An Error renders as the Fail it wraps, whatever the depth of that  *)
(* Fail, depth zero included; and when the Error is the foreign-error leaf *)
(* of another chain, that chain's rendering ends with the rendering of the *)
(* wrapped Fail.                                                           *)
(***************************************************************************)
EndsWith(ws, fs) ==
    /\ Len(ws) >= Len(fs)
    /\ SubSeq(ws, Len(ws) - Len(fs) + 1, Len(ws)) = fs

C9_ErrorRendersAsFail ==
    /\ \A e \in StateErrors : RenderError(e) = Render(e.val)
    /\ \A f \in StateFails : \A e \in LeafWrapper(f) :
           LET ws == Fail_fmt(f)
               fs == Fail_fmt(e.val)
           IN  /\ EndsWith(ws, fs)
               /\ Render(f) =
                      Text(SubSeq(ws, 1, Len(ws) - Len(fs))) \o Render(e.val)

C9_Witness ==
    /\ res.tag = "Err"
    /\ res.val.msg.tag = "Some"
    /\ Depth(res.val) = 2
    /\ \E e \in LeafWrapper(res.val) : Depth(e.val) = 0

(***************************************************************************)
(* C10.  Every Fail held as a FailCause::Fail has a message; an outermost  *)
(* Fail has no message only when it comes from the conversion of a foreign *)
(* error and no context has been attached; a foreign error is the cause of *)
(* the innermost link only.  Rendering writes one message per link that    *)
(* has one, and one separator per link that has a message and a cause.     *)
(***************************************************************************)
WritesAt(ws, line) == Cardinality({i \in 1..Len(ws) : ws[i].at = line})

C10_ChainShape ==
    /\ \A f \in StateFails :
           (f.cause.tag = "Some" /\ f.cause.val.tag = "Fail")
           => f.cause.val.val.msg.tag = "Some"
    /\ (res.tag = "Err" /\ res.val.msg.tag = "None")
       => /\ trail.kind = "conversion"
          /\ trail.ctx = <<>>
          /\ res.val.cause.tag = "Some"
          /\ res.val.cause.val.tag = "Error"
    /\ (wrapper.tag = "Some" /\ wrapper.val.val.msg.tag = "None")
       => /\ wtrail.trail.kind = "conversion"
          /\ wtrail.trail.ctx = <<>>
    /\ \A f \in StateFails :
           LET c == Chain(f)
           IN  \A i \in 1..Len(c) :
                   (c[i].cause.tag = "Some" /\ c[i].cause.val.tag = "Error")
                   => i = Len(c)
    /\ \A f \in StateFails :
           LET ws == Fail_fmt(f)
           IN  /\ WritesAt(ws, 76) =
                      Cardinality({g \in AllFails(f) : g.msg.tag = "Some"})
               /\ WritesAt(ws, 84) =
                      Cardinality({g \in AllFails(f) :
                                      g.msg.tag = "Some"
                                      /\ g.cause.tag = "Some"})

C10_Witness ==
    /\ res.tag = "Err"
    /\ Len(Chain(res.val)) = 3
    /\ Innermost(res.val).cause.tag = "Some"
    /\ WritesAt(Fail_fmt(res.val), 84) = 3

====
